---------------------------- MODULE Spec2Model ----------------------------
(***************************************************************************)
(* Battery cell charge/discharge simulation: the session state of          *)
(* enhanced_battery_dashboard.py (cells, task sequence, run flag, task     *)
(* cursor, task start time, task history) and the handlers that change it. *)
(*                                                                         *)
(* Units.  The program computes on floats; the model uses exact fixed      *)
(* point:                                                                  *)
(*   voltage  millivolts            current  deci-amperes (0.1 A)          *)
(*   temp     tenths of a degree C  capacity hundredths of a watt          *)
(*   soc      1/SocScale percent    time     whole seconds                 *)
(* A Streamlit rerun executes the auto-update block of main() and then the *)
(* handler of the widget that caused it; the model has one action for the  *)
(* block (Tick) and one per handler, so a rerun is Tick followed by the    *)
(* handler at the same clock value.                                        *)
(***************************************************************************)
EXTENDS Integers, Sequences, FiniteSets

VARIABLES
    setup_complete,      \* st.session_state.setup_complete
    cells_data,          \* st.session_state.cells_data, in insertion order
    tasks_data,          \* st.session_state.tasks_data: task_1 .. task_n
    task_running,        \* st.session_state.task_running
    current_task_index,  \* st.session_state.current_task_index
    task_start_time,     \* st.session_state.task_start_time (NoTime = None)
    task_history,        \* st.session_state.task_history
    now,                 \* the wall clock datetime.now() reads, in seconds
    op,                  \* history variable: the handler that ran last
    last_error,          \* history variable: what the last handler reported
    n_inputs             \* history variable: set-up, save and manual actions so far

vars == <<setup_complete, cells_data, tasks_data, task_running,
          current_task_index, task_start_time, task_history, now,
          op, last_error, n_inputs>>

session == <<setup_complete, cells_data, tasks_data, task_running,
             current_task_index, task_start_time, task_history>>

---------------------------------------------------------------------------
(* Bounds of the model. *)

MaxCells == 2
MaxTasks == 2
MaxHistory == 2
MaxInputs == 3
MaxSeconds == 2
MaxDays == 1
MaxUpdates == 2

---------------------------------------------------------------------------
(* Program constants. *)

NoTime == -1
SecondsPerDay == 86400
SocScale == 24
DefaultTimeSeconds == 60
DefaultCcCvCurrent == 20
DefaultCcCdCurrent == -20
MaxVoltageChange == 100
VoltagePerDeciAmp == 2
TempChangeThreshold == 10
MaxManualCurrent == 100
StatusThreshold == 1
AvgScale == 6
MinTemp == 200
MaxTemp == 600

Abs(x) == IF x < 0 THEN -x ELSE x
Min(a, b) == IF a <= b THEN a ELSE b
Max(a, b) == IF a >= b THEN a ELSE b

\* round(x, 2) on the exact quotient n / d, n >= 0: round half to even.
RoundHalfEven(n, d) ==
    LET q == n \div d
        r == n % d
    IN  IF 2 * r < d THEN q
        ELSE IF 2 * r > d THEN q + 1
        ELSE IF q % 2 = 0 THEN q ELSE q + 1

CellTypes == {"LFP", "NMC", "LTO"}

\* Variant of get_cell_specs that knows two chemistries only, as the
\* command-line script does: every type other than LFP gets the NMC row.
get_cell_specs_two_types(cell_type) ==
    IF cell_type = "LFP"
    THEN [nominal_voltage |-> 3200, min_voltage |-> 2800,
          max_voltage |-> 3600, nominal_capacity |-> 100]
    ELSE [nominal_voltage |-> 3600, min_voltage |-> 3200,
          max_voltage |-> 4000, nominal_capacity |-> 120]

get_cell_specs(cell_type) ==
    IF cell_type = "LFP"
    THEN [nominal_voltage |-> 3200, min_voltage |-> 2800,
          max_voltage |-> 3600, nominal_capacity |-> 100]
    ELSE IF cell_type = "NMC"
    THEN [nominal_voltage |-> 3600, min_voltage |-> 3200,
          max_voltage |-> 4000, nominal_capacity |-> 120]
    ELSE [nominal_voltage |-> 3700, min_voltage |-> 3000,
          max_voltage |-> 4200, nominal_capacity |-> 110]

\* Variant of calculate_soc_percentage without the clamp to [0, 100].
calculate_soc_unclamped(voltage, min_voltage, max_voltage) ==
    ((voltage - min_voltage) * 100 * SocScale)
        \div (max_voltage - min_voltage)

\* max(0, min(100, ((v - min) / (max - min)) * 100)), in 1/SocScale percent.
\* SocScale makes the quotient exact for the three voltage ranges.
calculate_soc_percentage(voltage, min_voltage, max_voltage) ==
    Max(0, Min(100 * SocScale,
               ((voltage - min_voltage) * 100 * SocScale)
                   \div (max_voltage - min_voltage)))

\* Variant of update_cell_calculations whose voltage step follows the
\* temperature draw: a cell that the draw heats gains no voltage.
update_with_thermal_voltage(cell, temp_change) ==
    LET voltage ==
            IF cell.current > 0
            THEN IF Abs(cell.current) > TempChangeThreshold /\ temp_change > 0
                 THEN cell.voltage
                 ELSE Min(cell.max_voltage,
                          cell.voltage + Min(MaxVoltageChange,
                                             cell.current * VoltagePerDeciAmp))
            ELSE IF cell.current < 0
            THEN Max(cell.min_voltage,
                     cell.voltage - Min(MaxVoltageChange,
                                        Abs(cell.current) * VoltagePerDeciAmp))
            ELSE cell.voltage
    IN  [cell EXCEPT
            !.capacity = RoundHalfEven(cell.voltage * Abs(cell.current), 100),
            !.voltage = voltage,
            !.soc = calculate_soc_percentage(voltage, cell.min_voltage,
                                             cell.max_voltage),
            !.temp = IF Abs(cell.current) > TempChangeThreshold
                     THEN Max(MinTemp, Min(MaxTemp, cell.temp + temp_change))
                     ELSE cell.temp]

\* Variant of update_cell_calculations that does not clamp the temperature.
update_without_temp_clamp(cell, temp_change) ==
    LET voltage ==
            IF cell.current > 0
            THEN Min(cell.max_voltage,
                     cell.voltage + Min(MaxVoltageChange,
                                        cell.current * VoltagePerDeciAmp))
            ELSE IF cell.current < 0
            THEN Max(cell.min_voltage,
                     cell.voltage - Min(MaxVoltageChange,
                                        Abs(cell.current) * VoltagePerDeciAmp))
            ELSE cell.voltage
    IN  [cell EXCEPT
            !.capacity = RoundHalfEven(cell.voltage * Abs(cell.current), 100),
            !.voltage = voltage,
            !.soc = calculate_soc_percentage(voltage, cell.min_voltage,
                                             cell.max_voltage),
            !.temp = IF Abs(cell.current) > TempChangeThreshold
                     THEN cell.temp + temp_change ELSE cell.temp]

\* Variant of update_cell_calculations that takes the capacity from the
\* voltage after the step.
update_with_late_capacity(cell, temp_change) ==
    LET voltage ==
            IF cell.current > 0
            THEN Min(cell.max_voltage,
                     cell.voltage + Min(MaxVoltageChange,
                                        cell.current * VoltagePerDeciAmp))
            ELSE IF cell.current < 0
            THEN Max(cell.min_voltage,
                     cell.voltage - Min(MaxVoltageChange,
                                        Abs(cell.current) * VoltagePerDeciAmp))
            ELSE cell.voltage
    IN  [cell EXCEPT
            !.capacity = RoundHalfEven(voltage * Abs(cell.current), 100),
            !.voltage = voltage,
            !.soc = calculate_soc_percentage(voltage, cell.min_voltage,
                                             cell.max_voltage)]

\* Variant of update_cell_calculations in which a cell at rest loses 1 mV
\* per update.
update_with_self_discharge(cell, temp_change) ==
    LET voltage ==
            IF cell.current > 0
            THEN Min(cell.max_voltage,
                     cell.voltage + Min(MaxVoltageChange,
                                        cell.current * VoltagePerDeciAmp))
            ELSE IF cell.current < 0
            THEN Max(cell.min_voltage,
                     cell.voltage - Min(MaxVoltageChange,
                                        Abs(cell.current) * VoltagePerDeciAmp))
            ELSE Max(cell.min_voltage, cell.voltage - 1)
    IN  [cell EXCEPT
            !.capacity = RoundHalfEven(cell.voltage * Abs(cell.current), 100),
            !.voltage = voltage,
            !.soc = calculate_soc_percentage(voltage, cell.min_voltage,
                                             cell.max_voltage)]

\* Variant of update_cell_calculations that does not clamp the new voltage.
update_without_clamp(cell, temp_change) ==
    LET voltage ==
            IF cell.current > 0
            THEN cell.voltage + Min(MaxVoltageChange,
                                    cell.current * VoltagePerDeciAmp)
            ELSE IF cell.current < 0
            THEN cell.voltage - Min(MaxVoltageChange,
                                    Abs(cell.current) * VoltagePerDeciAmp)
            ELSE cell.voltage
    IN  [cell EXCEPT
            !.capacity = RoundHalfEven(cell.voltage * Abs(cell.current), 100),
            !.voltage = voltage,
            !.soc = calculate_soc_percentage(voltage, cell.min_voltage,
                                             cell.max_voltage)]

\* Variant of update_cell_calculations that takes soc from the voltage
\* before the step.
update_with_stale_soc(cell, temp_change) ==
    LET voltage ==
            IF cell.current > 0
            THEN Min(cell.max_voltage,
                     cell.voltage + Min(MaxVoltageChange,
                                        cell.current * VoltagePerDeciAmp))
            ELSE IF cell.current < 0
            THEN Max(cell.min_voltage,
                     cell.voltage - Min(MaxVoltageChange,
                                        Abs(cell.current) * VoltagePerDeciAmp))
            ELSE cell.voltage
    IN  [cell EXCEPT
            !.capacity = RoundHalfEven(cell.voltage * Abs(cell.current), 100),
            !.voltage = voltage,
            !.soc = calculate_soc_percentage(cell.voltage, cell.min_voltage,
                                             cell.max_voltage)]

\* One call of update_cell_calculations on a cell; temp_change is the draw
\* of random.uniform(-1, 2), used only when |current| > 1 A.
update_cell_calculations(cell, temp_change) ==
    LET capacity == RoundHalfEven(cell.voltage * Abs(cell.current), 100)
        voltage ==
            IF cell.current > 0
            THEN Min(cell.max_voltage,
                     cell.voltage + Min(MaxVoltageChange,
                                        cell.current * VoltagePerDeciAmp))
            ELSE IF cell.current < 0
            THEN Max(cell.min_voltage,
                     cell.voltage - Min(MaxVoltageChange,
                                        Abs(cell.current) * VoltagePerDeciAmp))
            ELSE cell.voltage
        soc == calculate_soc_percentage(voltage, cell.min_voltage,
                                        cell.max_voltage)
        temp ==
            IF Abs(cell.current) > TempChangeThreshold
            THEN Max(MinTemp, Min(MaxTemp, cell.temp + temp_change))
            ELSE cell.temp
    IN  [cell EXCEPT !.capacity = capacity, !.voltage = voltage,
                     !.soc = soc, !.temp = temp]

---------------------------------------------------------------------------
(* The values the model draws for the program's inputs. *)

\* The two draws of setup_cells() for one cell, as <<voltage, temp>>:
\* round(random.uniform(min_voltage, max_voltage), 2) and
\* round(random.uniform(25, 40), 1), both at their low or both at their
\* high end.
CellDraws(specs) ==
    {<<specs.min_voltage, 250>>, <<specs.max_voltage, 400>>}

\* random.uniform(-1, 2): the two ends.
TempChanges == {-10, 20}

\* The four preset buttons of the control panel: +2 A, +5 A, -2 A, 0 A.
PresetCurrents == {20, 50, -20, 0}

\* Values typed into a cell's number_input (min_value -10.0, max_value 10.0).
CellInputCurrents == {-100, 15}

\* The cell types chosen on the Setup page, one list per number of cells.
CellTypeLists ==
    {types \in {<<"LFP">>, <<"NMC", "LTO">>, <<"LTO", "LFP", "NMC">>} :
        Len(types) <= MaxCells}

\* Tasks entered in the task form (cc_current in deci-amperes, time_seconds
\* in seconds; the other fields as the form's defaults leave them).
CcCv(time_seconds) ==
    [task_type |-> "CC_CV", cc_current |-> 50, cv_voltage |-> 4000,
     current |-> 20, capacity |-> 100, time_seconds |-> time_seconds]

Idle(time_seconds) == [task_type |-> "IDLE", time_seconds |-> time_seconds]

CcCd(time_seconds) ==
    [task_type |-> "CC_CD", cc_current |-> -20, voltage |-> 3000,
     capacity |-> 100, time_seconds |-> time_seconds]

\* A discharge at 12 A for 0 seconds: the form's number_inputs for the CC
\* current and the time carry no min_value or max_value.
UnboundedCcCd == [CcCd(0) EXCEPT !.cc_current = -120]

\* The sequences saved from the task form.
TaskSequences ==
    {tasks \in {<<CcCv(2)>>, <<Idle(1), CcCd(1)>>, <<UnboundedCcCd>>,
                <<CcCv(1), Idle(1), CcCd(2)>>} :
        Len(tasks) <= MaxTasks}

---------------------------------------------------------------------------
(* Cells. *)

\* The cell record setup_cells builds for one cell.
NewCell(cell_type, voltage, temp) ==
    LET specs == get_cell_specs(cell_type)
    IN  [cell_type |-> cell_type,
         voltage |-> voltage,
         current |-> 0,
         temp |-> temp,
         capacity |-> RoundHalfEven(voltage * Abs(0), 100),
         min_voltage |-> specs.min_voltage,
         max_voltage |-> specs.max_voltage,
         nominal_voltage |-> specs.nominal_voltage,
         nominal_capacity |-> specs.nominal_capacity,
         soc |-> calculate_soc_percentage(voltage, specs.min_voltage,
                                          specs.max_voltage)]

\* The loop "for cell_key in cells_data: current = value; update(cell_key)".
SetAllCurrents(cells, value, draws) ==
    [i \in DOMAIN cells |->
        update_cell_calculations([cells[i] EXCEPT !.current = value],
                                 draws[i])]

\* The draws of one loop over the pool, one per cell.  Every cell draws for
\* itself; the model takes the vectors in which all cells draw the same end.
Draws(cells) == {[i \in DOMAIN cells |-> d] : d \in TempChanges}

\* Variant of apply_cc_cv_task that caps the charging current at the task's
\* current limit.
apply_cc_cv_limited(task_data, cells, draws) ==
    SetAllCurrents(cells, Min(task_data.cc_current, task_data.current), draws)

apply_cc_cv_task(task_data, cells, draws) ==
    SetAllCurrents(cells,
                   IF "cc_current" \in DOMAIN task_data
                   THEN task_data.cc_current ELSE DefaultCcCvCurrent,
                   draws)

apply_idle_task(task_data, cells, draws) == SetAllCurrents(cells, 0, draws)

\* Variant of apply_cc_cd_task that always discharges at the default current.
apply_cc_cd_default(task_data, cells, draws) ==
    SetAllCurrents(cells, DefaultCcCdCurrent, draws)

apply_cc_cd_task(task_data, cells, draws) ==
    SetAllCurrents(cells,
                   IF "cc_current" \in DOMAIN task_data
                   THEN task_data.cc_current ELSE DefaultCcCdCurrent,
                   draws)

---------------------------------------------------------------------------
(* The task sequencer. *)

\* The key f"task_{index + 1}" of the task at a cursor position.
TaskKey(index) == index + 1

HistoryEntry(index, task_data) ==
    [timestamp |-> now, task |-> TaskKey(index),
     type |-> task_data.task_type, status |-> "started"]

\* Variant of execute_current_task that keeps only the newest log entry.
execute_forgetting_history(index, draws) ==
    IF index >= Len(tasks_data)
    THEN /\ task_running' = FALSE
         /\ current_task_index' = 0
         /\ UNCHANGED <<cells_data, task_history>>
    ELSE LET task_data == tasks_data[TaskKey(index)]
         IN  /\ cells_data' =
                    IF task_data.task_type = "CC_CV"
                    THEN apply_cc_cv_task(task_data, cells_data, draws)
                    ELSE IF task_data.task_type = "IDLE"
                    THEN apply_idle_task(task_data, cells_data, draws)
                    ELSE IF task_data.task_type = "CC_CD"
                    THEN apply_cc_cd_task(task_data, cells_data, draws)
                    ELSE cells_data
             /\ task_history' = <<HistoryEntry(index, task_data)>>
             /\ task_running' = TRUE
             /\ current_task_index' = index

\* execute_current_task() with current_task_index = index.
execute_current_task(index, draws) ==
    IF index >= Len(tasks_data)
    THEN /\ task_running' = FALSE
         /\ current_task_index' = 0
         /\ UNCHANGED <<cells_data, task_history>>
    ELSE LET task_data == tasks_data[TaskKey(index)]
         IN  /\ cells_data' =
                    IF task_data.task_type = "CC_CV"
                    THEN apply_cc_cv_task(task_data, cells_data, draws)
                    ELSE IF task_data.task_type = "IDLE"
                    THEN apply_idle_task(task_data, cells_data, draws)
                    ELSE IF task_data.task_type = "CC_CD"
                    THEN apply_cc_cd_task(task_data, cells_data, draws)
                    ELSE cells_data
             /\ task_history' =
                    Append(task_history, HistoryEntry(index, task_data))
             /\ task_running' = TRUE
             /\ current_task_index' = index

\* Variant of start_task_sequence that keeps the old task_start_time.
start_without_timestamp(draws) ==
    IF tasks_data = <<>>
    THEN /\ last_error' = "No tasks defined!"
         /\ UNCHANGED <<cells_data, task_running, current_task_index,
                        task_start_time, task_history>>
    ELSE /\ last_error' = ""
         /\ UNCHANGED task_start_time
         /\ execute_current_task(0, draws)

\* Variant of start_task_sequence without the check for an empty sequence.
start_without_empty_check(draws) ==
    /\ last_error' = ""
    /\ task_start_time' = now
    /\ execute_current_task(0, draws)

\* start_task_sequence()
start_task_sequence(draws) ==
    IF tasks_data = <<>>
    THEN /\ last_error' = "No tasks defined!"
         /\ UNCHANGED <<cells_data, task_running, current_task_index,
                        task_start_time, task_history>>
    ELSE /\ last_error' = ""
         /\ task_start_time' = now
         /\ execute_current_task(0, draws)

\* Variant of stop_all_tasks that leaves the task cursor where it is.
stop_without_index_reset(draws) ==
    /\ task_running' = FALSE
    /\ UNCHANGED current_task_index
    /\ cells_data' = SetAllCurrents(cells_data, 0, draws)

\* stop_all_tasks()
stop_all_tasks(draws) ==
    /\ task_running' = FALSE
    /\ current_task_index' = 0
    /\ cells_data' = SetAllCurrents(cells_data, 0, draws)

\* (datetime.now() - task_start_time).seconds: the seconds field of the
\* timedelta, which leaves out its days.
Elapsed(t, start) == (t - start) % SecondsPerDay

\* current_task.get('time_seconds', 60) for tasks_data.get(key, {}).
TimeSecondsAt(index) ==
    IF TaskKey(index) \in DOMAIN tasks_data
    THEN tasks_data[TaskKey(index)].time_seconds
    ELSE DefaultTimeSeconds

\* Variant of TaskDue that fires one second early.
TaskDueEarly ==
    /\ task_running
    /\ task_start_time # NoTime
    /\ Elapsed(now, task_start_time) + 1 >= TimeSecondsAt(current_task_index)

\* The condition under which the auto-update block moves to the next task.
TaskDue ==
    /\ task_running
    /\ task_start_time # NoTime
    /\ Elapsed(now, task_start_time) >= TimeSecondsAt(current_task_index)

---------------------------------------------------------------------------
(* Initial state: initialize_session_state() on a fresh session. *)

Init ==
    /\ setup_complete = FALSE
    /\ cells_data = <<>>
    /\ tasks_data = <<>>
    /\ task_running = FALSE
    /\ current_task_index = 0
    /\ task_start_time = NoTime
    /\ task_history = <<>>
    /\ now = 0
    /\ op = "init"
    /\ last_error = ""
    /\ n_inputs = 0

---------------------------------------------------------------------------
(* Actions. *)

\* The clock moves on between reruns: by a second, or by a whole day.
AdvanceClock ==
    /\ \/ /\ now % SecondsPerDay < MaxSeconds
          /\ now' = now + 1
       \/ /\ now \div SecondsPerDay < MaxDays
          /\ now' = now + SecondsPerDay
    /\ op' = "clock"
    /\ last_error' = ""
    /\ UNCHANGED <<session, n_inputs>>

\* The cells "Initialize Cells" can build for a type, one per pair of draws.
NewCells(cell_type) ==
    {NewCell(cell_type, draw[1], draw[2]) :
        draw \in CellDraws(get_cell_specs(cell_type))}

\* The pools "Initialize Cells" can build: one cell per chosen type.
Pools ==
    UNION {{cells \in [DOMAIN cell_types ->
                          UNION {NewCells(t) : t \in CellTypes}] :
               \A i \in DOMAIN cell_types :
                   cells[i] \in NewCells(cell_types[i])} :
           cell_types \in CellTypeLists}

\* Variant of InitializeCells that also clears the saved sequence, the
\* history and the run.
InitializeCellsClearing ==
    /\ n_inputs < MaxInputs
    /\ cells_data' \in Pools
    /\ setup_complete' = TRUE
    /\ tasks_data' = <<>>
    /\ task_history' = <<>>
    /\ task_running' = FALSE
    /\ current_task_index' = 0
    /\ task_start_time' = NoTime
    /\ n_inputs' = n_inputs + 1
    /\ op' = "setup"
    /\ last_error' = ""
    /\ UNCHANGED now

\* The "Initialize Cells" button of setup_cells(): the Setup page is open to
\* the user at any time, also while a task sequence runs.
InitializeCells ==
    /\ n_inputs < MaxInputs
    /\ cells_data' \in Pools
    /\ setup_complete' = TRUE
    /\ n_inputs' = n_inputs + 1
    /\ op' = "setup"
    /\ last_error' = ""
    /\ UNCHANGED <<tasks_data, task_running, current_task_index,
                   task_start_time, task_history, now>>

\* The "Save Task Sequence" button of task_management().
SaveTaskSequence ==
    /\ setup_complete
    /\ n_inputs < MaxInputs
    /\ tasks_data' \in TaskSequences
    /\ n_inputs' = n_inputs + 1
    /\ op' = "save"
    /\ last_error' = ""
    /\ UNCHANGED <<setup_complete, cells_data, task_running,
                   current_task_index, task_start_time, task_history, now>>

\* The task control buttons are drawn only on the Tasks page, after setup,
\* and once a sequence is saved ("if st.session_state.tasks_data:").
TaskControlsShown == setup_complete /\ tasks_data # <<>>

\* Variant of StartEnabled: the button is never disabled.
StartAlwaysEnabled == TRUE

\* st.button("Start Task Sequence", disabled=st.session_state.task_running)
StartEnabled == ~task_running

\* The "Start Task Sequence" button.  A disabled button runs no handler.
StartButton ==
    /\ TaskControlsShown
    /\ Len(task_history) < MaxHistory
    /\ IF StartEnabled
       THEN /\ op' = "start"
            /\ \E draws \in Draws(cells_data) : start_task_sequence(draws)
       ELSE /\ op' = "start_disabled"
            /\ last_error' = ""
            /\ UNCHANGED <<cells_data, task_running, current_task_index,
                           task_start_time, task_history>>
    /\ UNCHANGED <<setup_complete, tasks_data, now, n_inputs>>

\* start_task_sequence() called with no task saved, which the function
\* itself provides for (the Tasks page never offers the button then).
StartNoTasks ==
    /\ tasks_data = <<>>
    /\ ~task_running
    /\ op' = "start"
    /\ \E draws \in Draws(cells_data) : start_task_sequence(draws)
    /\ UNCHANGED <<setup_complete, tasks_data, now, n_inputs>>

\* st.button("Pause Tasks", disabled=not st.session_state.task_running)
PauseEnabled == task_running

\* Variant of the pause handler that also rewinds the task cursor.
pause_with_index_reset ==
    /\ task_running' = FALSE
    /\ current_task_index' = 0
    /\ UNCHANGED <<cells_data, task_start_time, task_history>>

\* Variant of the pause handler that also takes the current off the cells,
\* as a stop does.
pause_with_zero_currents ==
    /\ task_running' = FALSE
    /\ \E draws \in Draws(cells_data) :
          cells_data' = SetAllCurrents(cells_data, 0, draws)
    /\ UNCHANGED <<current_task_index, task_start_time, task_history>>

\* The handler of the "Pause Tasks" button.
pause_tasks ==
    /\ task_running' = FALSE
    /\ UNCHANGED <<cells_data, current_task_index, task_start_time,
                   task_history>>

\* The "Pause Tasks" button.  A disabled button runs no handler.
PauseButton ==
    /\ TaskControlsShown
    /\ last_error' = ""
    /\ IF PauseEnabled
       THEN op' = "pause" /\ pause_tasks
       ELSE /\ op' = "pause_disabled"
            /\ UNCHANGED <<cells_data, task_running, current_task_index,
                           task_start_time, task_history>>
    /\ UNCHANGED <<setup_complete, tasks_data, now, n_inputs>>

\* The "Stop Tasks" button.
StopButton ==
    /\ TaskControlsShown
    /\ op' = "stop"
    /\ last_error' = ""
    /\ \E draws \in Draws(cells_data) : stop_all_tasks(draws)
    /\ UNCHANGED <<setup_complete, tasks_data, task_start_time,
                   task_history, now, n_inputs>>

\* Variant of Tick that applies the active task again on every rerun in
\* which the task does not end.
TickReapplying ==
    /\ (TaskDue /\ current_task_index + 1 < Len(tasks_data))
           => Len(task_history) < MaxHistory
    /\ op' = "tick"
    /\ last_error' = ""
    /\ IF TaskDue
       THEN /\ task_start_time' = now
            /\ IF current_task_index + 1 >= Len(tasks_data)
               THEN /\ task_running' = FALSE
                    /\ current_task_index' = 0
                    /\ UNCHANGED <<cells_data, task_history>>
               ELSE \E draws \in Draws(cells_data) :
                        execute_current_task(current_task_index + 1, draws)
       ELSE /\ UNCHANGED <<task_running, current_task_index,
                           task_start_time, task_history>>
            /\ IF task_running
                    /\ TaskKey(current_task_index) \in DOMAIN tasks_data
               THEN \E draws \in Draws(cells_data) :
                       cells_data' =
                           SetAllCurrents(
                               cells_data,
                               IF tasks_data[TaskKey(current_task_index)]
                                      .task_type = "IDLE"
                               THEN 0
                               ELSE tasks_data[TaskKey(current_task_index)]
                                        .cc_current,
                               draws)
               ELSE UNCHANGED cells_data
    /\ UNCHANGED <<setup_complete, tasks_data, now, n_inputs>>

\* Variant of Tick that catches up with the clock: when the elapsed time
\* also covers the duration of the next task, it passes over that task.
TickCatchingUp ==
    /\ (TaskDue /\ current_task_index + 1 < Len(tasks_data))
           => Len(task_history) < MaxHistory
    /\ op' = "tick"
    /\ last_error' = ""
    /\ IF TaskDue
       THEN LET covered ==
                    IF Elapsed(now, task_start_time)
                           >= TimeSecondsAt(current_task_index)
                                  + TimeSecondsAt(current_task_index + 1)
                    THEN 2 ELSE 1
            IN  /\ task_start_time' = now
                /\ IF current_task_index + covered >= Len(tasks_data)
                   THEN /\ task_running' = FALSE
                        /\ current_task_index' = 0
                        /\ UNCHANGED <<cells_data, task_history>>
                   ELSE \E draws \in Draws(cells_data) :
                            execute_current_task(current_task_index + covered,
                                                 draws)
       ELSE UNCHANGED <<cells_data, task_running, current_task_index,
                        task_start_time, task_history>>
    /\ UNCHANGED <<setup_complete, tasks_data, now, n_inputs>>

\* The auto-update block at the top of main(), run by every rerun.
Tick ==
    /\ (TaskDue /\ current_task_index + 1 < Len(tasks_data))
           => Len(task_history) < MaxHistory
    /\ op' = "tick"
    /\ last_error' = ""
    /\ IF TaskDue
       THEN /\ task_start_time' = now
            /\ IF current_task_index + 1 >= Len(tasks_data)
               THEN /\ task_running' = FALSE
                    /\ current_task_index' = 0
                    /\ UNCHANGED <<cells_data, task_history>>
               ELSE \E draws \in Draws(cells_data) :
                        execute_current_task(current_task_index + 1, draws)
       ELSE UNCHANGED <<cells_data, task_running, current_task_index,
                        task_start_time, task_history>>
    /\ UNCHANGED <<setup_complete, tasks_data, now, n_inputs>>

\* One of the four preset buttons of control_panel().
PresetButton ==
    /\ setup_complete
    /\ n_inputs < MaxInputs
    /\ \E value \in PresetCurrents : \E draws \in Draws(cells_data) :
           cells_data' = SetAllCurrents(cells_data, value, draws)
    /\ n_inputs' = n_inputs + 1
    /\ op' = "preset"
    /\ last_error' = ""
    /\ UNCHANGED <<setup_complete, tasks_data, task_running,
                   current_task_index, task_start_time, task_history, now>>

\* A new value in one cell's number_input of control_panel().
SetCellCurrent ==
    /\ setup_complete
    /\ n_inputs < MaxInputs
    /\ \E i \in DOMAIN cells_data : \E current_val \in CellInputCurrents :
       \E temp_change \in TempChanges :
          /\ current_val # cells_data[i].current
          /\ cells_data' =
                [cells_data EXCEPT ![i] =
                    update_cell_calculations(
                        [cells_data[i] EXCEPT !.current = current_val],
                        temp_change)]
    /\ n_inputs' = n_inputs + 1
    /\ op' = "cell"
    /\ last_error' = ""
    /\ UNCHANGED <<setup_complete, tasks_data, task_running,
                   current_task_index, task_start_time, task_history, now>>

\* Magnitudes above 10 A typed into a cell's number_input.
OutOfRangeCurrents == {-110, 110}

\* Variant of SetCellCurrentOutOfRange: the typed value is clamped to the
\* nearest end of the range and applied to the cell.
SetCellCurrentClamped ==
    /\ setup_complete
    /\ \E i \in DOMAIN cells_data : \E typed \in OutOfRangeCurrents :
       \E temp_change \in TempChanges :
          cells_data' =
              [cells_data EXCEPT ![i] =
                  update_cell_calculations(
                      [cells_data[i] EXCEPT !.current =
                          IF typed < 0 THEN -MaxManualCurrent
                          ELSE MaxManualCurrent],
                      temp_change)]
    /\ op' = "cell_rejected"
    /\ last_error' = ""
    /\ UNCHANGED <<setup_complete, tasks_data, task_running,
                   current_task_index, task_start_time, task_history, now,
                   n_inputs>>

\* A value outside [min_value, max_value] typed into a cell's number_input:
\* the widget does not hand it to the script, so no handler runs.
SetCellCurrentOutOfRange ==
    /\ setup_complete
    /\ \E i \in DOMAIN cells_data : \E typed \in OutOfRangeCurrents :
           typed < -MaxManualCurrent \/ typed > MaxManualCurrent
    /\ op' = "cell_rejected"
    /\ last_error' = ""
    /\ UNCHANGED <<session, now, n_inputs>>

\* The "Reset All Data" button: st.session_state.clear(), and the rerun's
\* initialize_session_state() puts the defaults back.
ResetAllData ==
    /\ setup_complete' = FALSE
    /\ cells_data' = <<>>
    /\ tasks_data' = <<>>
    /\ task_running' = FALSE
    /\ current_task_index' = 0
    /\ task_start_time' = NoTime
    /\ task_history' = <<>>
    /\ op' = "reset"
    /\ last_error' = ""
    /\ n_inputs' = 0
    /\ UNCHANGED now

Next ==
    \/ AdvanceClock
    \/ InitializeCells
    \/ SaveTaskSequence
    \/ StartButton
    \/ PauseButton
    \/ StopButton
    \/ Tick
    \/ PresetButton
    \/ SetCellCurrent
    \/ SetCellCurrentOutOfRange
    \/ ResetAllData

Spec == Init /\ [][Next]_vars

\* The handlers called directly as well: start_task_sequence() with no task.
NextCalls == Next \/ StartNoTasks

SpecCalls == Init /\ [][NextCalls]_vars

---------------------------------------------------------------------------
(* Status and aggregates of the dashboard page. *)

\* Variant of get_cell_status whose thresholds include 0.1 A and -0.1 A.
get_cell_status_inclusive(current, running) ==
    IF running
    THEN IF current >= StatusThreshold THEN <<"Task: Charging", "task">>
         ELSE IF current <= -StatusThreshold
         THEN <<"Task: Discharging", "task">>
         ELSE <<"Task: Idle", "task">>
    ELSE IF current >= StatusThreshold THEN <<"Charging", "charging">>
         ELSE IF current <= -StatusThreshold
         THEN <<"Discharging", "discharging">>
         ELSE <<"Idle", "idle">>

\* get_cell_status(current, task_running): the label and the card class.
get_cell_status(current, running) ==
    IF running
    THEN IF current > StatusThreshold THEN <<"Task: Charging", "task">>
         ELSE IF current < -StatusThreshold
         THEN <<"Task: Discharging", "task">>
         ELSE <<"Task: Idle", "task">>
    ELSE IF current > StatusThreshold THEN <<"Charging", "charging">>
         ELSE IF current < -StatusThreshold
         THEN <<"Discharging", "discharging">>
         ELSE <<"Idle", "idle">>

\* The summary metrics of display_cell_cards().
total_cells(cells) == Len(cells)

\* Variant of charging_cells that counts a cell at exactly 0.1 A.
charging_cells_inclusive(cells) ==
    Cardinality({i \in DOMAIN cells : cells[i].current >= StatusThreshold})

charging_cells(cells) ==
    Cardinality({i \in DOMAIN cells : cells[i].current > StatusThreshold})

discharging_cells(cells) ==
    Cardinality({i \in DOMAIN cells : cells[i].current < -StatusThreshold})

RECURSIVE SumTemp(_, _)
SumTemp(cells, n) ==
    IF n = 0 THEN 0 ELSE SumTemp(cells, n - 1) + cells[n].temp

\* sum(temp) / total_cells if total_cells > 0 else 0, in 1/AvgScale of a
\* tenth of a degree: AvgScale makes the quotient exact for 1, 2, 3 and 6
\* cells.
avg_temp(cells) ==
    IF total_cells(cells) > 0
    THEN (SumTemp(cells, Len(cells)) * AvgScale) \div total_cells(cells)
    ELSE 0

---------------------------------------------------------------------------
(* The cell functions on a pool in mid-session: cells anywhere in their    *)
(* voltage range and anywhere in the temperature range, driven by manual   *)
(* currents on the 0.1 A grid of the number_input and by a task.           *)

\* Values typed into a cell's number_input (step 0.1), around the status
\* threshold, at the temperature threshold and at both ends of the voltage
\* step.
FineCurrents == {-100, -10, -2, -1, 0, 1, 2, 50}

\* Temperatures of a cell in mid-session, near both clamps and in between.
SampleTemps == {205, 250, 590, 600}

\* Cells at rest in mid-session.
SampleCells ==
    UNION {{NewCell(t, v, temp) :
               v \in {get_cell_specs(t).min_voltage + 400,
                      get_cell_specs(t).max_voltage - 50},
               temp \in SampleTemps} :
           t \in CellTypes}

SamplePools ==
    {<<a>> : a \in SampleCells}
        \cup {pool \in {<<a, NewCell("NMC", 3600, 250)>> : a \in SampleCells} :
                 Len(pool) <= MaxCells}

InitCell ==
    /\ setup_complete = TRUE
    /\ cells_data \in SamplePools
    /\ tasks_data = <<CcCv(2)>>
    /\ task_running = FALSE
    /\ current_task_index = 0
    /\ task_start_time = NoTime
    /\ task_history = <<>>
    /\ now = 0
    /\ op = "init"
    /\ last_error = ""
    /\ n_inputs = 0

\* A new value in one cell's number_input of control_panel(), on the 0.1 A
\* grid.
SetCellCurrentFine ==
    /\ setup_complete
    /\ n_inputs < MaxUpdates
    /\ \E i \in DOMAIN cells_data : \E current_val \in FineCurrents :
       \E temp_change \in TempChanges :
          /\ current_val # cells_data[i].current
          /\ cells_data' =
                [cells_data EXCEPT ![i] =
                    update_cell_calculations(
                        [cells_data[i] EXCEPT !.current = current_val],
                        temp_change)]
    /\ n_inputs' = n_inputs + 1
    /\ op' = "cell"
    /\ last_error' = ""
    /\ UNCHANGED <<setup_complete, tasks_data, task_running,
                   current_task_index, task_start_time, task_history, now>>

NextCell ==
    \/ SetCellCurrentFine
    \/ StartButton
    \/ StopButton

SpecCell == InitCell /\ [][NextCell]_vars

---------------------------------------------------------------------------
(* Vocabulary of the properties. *)

\* The current a task drives every cell with.
TargetCurrent(task_data) ==
    IF task_data.task_type = "IDLE" THEN 0 ELSE task_data.cc_current

\* cells_after is cells_before with every cell set to value and updated once.
AppliedToEveryCell(cells_before, cells_after, value) ==
    /\ DOMAIN cells_after = DOMAIN cells_before
    /\ \A i \in DOMAIN cells_before :
          /\ cells_after[i].current = value
          /\ \E temp_change \in TempChanges :
                cells_after[i] =
                    update_cell_calculations(
                        [cells_before[i] EXCEPT !.current = value],
                        temp_change)

\* The log after the step is the log before it plus one entry.
AppendedOne(status, task) ==
    /\ Len(task_history') = Len(task_history) + 1
    /\ SubSeq(task_history', 1, Len(task_history)) = task_history
    /\ task_history'[Len(task_history')].status = status
    /\ task_history'[Len(task_history')].task = task

LastEntry == task_history[Len(task_history)]

\* The seconds the code takes as elapsed: timedelta.seconds.
CodeElapsed == (now - task_start_time) % SecondsPerDay

\* The active task exists and is, or is not, the last of the sequence.
OnLastTask == current_task_index + 1 = Len(tasks_data)
BeforeLastTask == current_task_index + 1 < Len(tasks_data)

---------------------------------------------------------------------------
(* C1.  A successful start of a non-empty sequence sets index to 0, sets   *)
(* the run flag, records task_start = now, applies task 0's effect to      *)
(* every cell, and appends exactly one history entry, whose status is      *)
(* "started" and whose task is task_1 (index 0).                           *)
C1_StartEffect ==
    [][(op' = "start" /\ tasks_data # <<>>) =>
          /\ task_running'
          /\ current_task_index' = 0
          /\ task_start_time' = now
          /\ AppliedToEveryCell(cells_data, cells_data',
                                TargetCurrent(tasks_data[1]))
          /\ AppendedOne("started", 1)
          /\ task_history'[Len(task_history')].type = tasks_data[1].task_type
      ]_vars

C1_Witness ==
    /\ op = "start"
    /\ task_running
    /\ current_task_index = 0
    /\ task_start_time = now
    /\ now > 0
    /\ Len(cells_data) = 2
    /\ \A i \in DOMAIN cells_data : cells_data[i].current = 50
    /\ Len(task_history) = 2
    /\ LastEntry.status = "started" /\ LastEntry.task = 1

---------------------------------------------------------------------------
(* C2.  Original statement: a tick while running before the last task,     *)
(* with now - task_start >= the task's duration, increments index by one,  *)
(* sets task_start = now, applies the new task to every cell and appends   *)
(* exactly one history entry whose event is "advanced".                    *)
C2_Original ==
    [][(/\ op' = "tick"
        /\ task_running
        /\ BeforeLastTask
        /\ now - task_start_time >= tasks_data[current_task_index + 1].time_seconds)
       =>
          /\ current_task_index' = current_task_index + 1
          /\ task_start_time' = now
          /\ AppliedToEveryCell(cells_data, cells_data',
                                TargetCurrent(tasks_data[current_task_index + 2]))
          /\ AppendedOne("advanced", current_task_index + 2)
      ]_vars

(* What the code does instead: the advance happens when the seconds field *)
(* of now - task_start, which drops whole days, is >= time_seconds, and    *)
(* the entry appended has status "started".                                *)
TickAdvancesAsCoded ==
    [][(/\ op' = "tick"
        /\ task_running
        /\ BeforeLastTask
        /\ CodeElapsed >= tasks_data[current_task_index + 1].time_seconds)
       =>
          /\ current_task_index' = current_task_index + 1
          /\ task_running'
          /\ task_start_time' = now
          /\ AppliedToEveryCell(cells_data, cells_data',
                                TargetCurrent(tasks_data[current_task_index + 2]))
          /\ AppendedOne("started", current_task_index + 2)
      ]_vars

\* The tick at exactly time_seconds after the start has advanced to task_2.
TickAdvancesReached ==
    /\ op = "tick"
    /\ task_running
    /\ current_task_index = 1
    /\ task_start_time = now
    /\ Len(task_history) = 2
    /\ task_history[1].task = 1
    /\ task_history[2].task = 2
    /\ task_history[2].status = "started"
    /\ task_history[2].timestamp - task_history[1].timestamp
           = tasks_data[1].time_seconds
    /\ \A i \in DOMAIN cells_data :
           cells_data[i].current = TargetCurrent(tasks_data[2])

---------------------------------------------------------------------------
(* C3.  Original statement: a tick while running on the last task, with    *)
(* now - task_start >= its duration, ends the run and appends exactly one  *)
(* history entry whose event is "completed".                               *)
C3_Original ==
    [][(/\ op' = "tick"
        /\ task_running
        /\ OnLastTask
        /\ now - task_start_time >= tasks_data[current_task_index + 1].time_seconds)
       =>
          /\ ~task_running'
          /\ AppendedOne("completed", current_task_index + 1)
      ]_vars

(* What the code does instead: the run ends when the seconds field of     *)
(* now - task_start is >= time_seconds; the run flag is cleared, index is  *)
(* reset to 0, task_start is set to now, and nothing is appended: every    *)
(* entry of the history has status "started".                              *)
TickCompletesAsCoded ==
    /\ [](\A k \in DOMAIN task_history : task_history[k].status = "started")
    /\ [][(/\ op' = "tick"
           /\ task_running
           /\ OnLastTask
           /\ CodeElapsed >= tasks_data[current_task_index + 1].time_seconds)
          =>
             /\ ~task_running'
             /\ current_task_index' = 0
             /\ task_start_time' = now
             /\ UNCHANGED <<cells_data, task_history, tasks_data>>
         ]_vars
    /\ [][(op' = "tick" /\ ~task_running) => UNCHANGED task_history]_vars

\* A two-task run has completed: both tasks logged, the run flag cleared by
\* the tick, the cells still carrying the last task's current.
TickCompletesReached ==
    /\ op = "tick"
    /\ ~task_running
    /\ current_task_index = 0
    /\ task_start_time = now
    /\ Len(tasks_data) = 2
    /\ Len(task_history) = 2
    /\ task_history[2].task = 2
    /\ now - task_history[2].timestamp = tasks_data[2].time_seconds
    /\ \A i \in DOMAIN cells_data :
           cells_data[i].current = TargetCurrent(tasks_data[2])
    /\ \E i \in DOMAIN cells_data : cells_data[i].current # 0

---------------------------------------------------------------------------
(* C4.  A tick is a no-op unless the sequencer is running and the active   *)
(* task's duration has elapsed: a tick while not running (never started,   *)
(* paused, stopped, completed), and a tick while running with              *)
(* now - task_start < the active task's time_seconds, leave the run flag,  *)
(* index, task_start, every cell, the saved sequence and the history       *)
(* unchanged.                                                              *)
C4_TickNoOp ==
    [][(/\ op' = "tick"
        /\ \/ ~task_running
           \/ /\ TaskKey(current_task_index) \in DOMAIN tasks_data
              /\ now - task_start_time
                     < tasks_data[current_task_index + 1].time_seconds)
       => UNCHANGED session
      ]_vars

\* A tick one second into a two-second task, with cells under charge.
C4_Witness ==
    /\ op = "tick"
    /\ task_running
    /\ current_task_index = 0
    /\ now - task_start_time = 1
    /\ tasks_data[1].time_seconds = 2
    /\ Len(task_history) = 1
    /\ Len(cells_data) = 2
    /\ \A i \in DOMAIN cells_data : cells_data[i].current = 50

---------------------------------------------------------------------------
(* C5.  Original statement: after a stop the run flag is clear, index is   *)
(* 0, every cell's current is 0, and exactly one history entry with event  *)
(* "stopped" has been appended.                                            *)
C5_Original ==
    [][op' = "stop" =>
          /\ ~task_running'
          /\ current_task_index' = 0
          /\ \A i \in DOMAIN cells_data' : cells_data'[i].current = 0
          /\ Len(task_history') = Len(task_history) + 1
          /\ SubSeq(task_history', 1, Len(task_history)) = task_history
          /\ task_history'[Len(task_history')].status = "stopped"
      ]_vars

(* C5, amended.  A stop, from any run state in which the task controls are *)
(* shown, leaves the run flag clear and index 0, sets every cell's current *)
(* to 0 with one update of the cell, and leaves the history, the saved     *)
(* sequence and task_start as they were: no "stopped" entry is appended.   *)
C5_StopEffect ==
    [][op' = "stop" =>
          /\ ~task_running'
          /\ current_task_index' = 0
          /\ AppliedToEveryCell(cells_data, cells_data', 0)
          /\ \A i \in DOMAIN cells_data' : cells_data'[i].current = 0
          /\ UNCHANGED <<task_history, tasks_data, task_start_time,
                         setup_complete>>
      ]_vars

\* Stopped while the second task was running: index back at 0, currents 0.
C5_Witness ==
    /\ op = "stop"
    /\ ~task_running
    /\ current_task_index = 0
    /\ Len(task_history) = 2
    /\ task_history[2].task = 2
    /\ task_start_time = task_history[2].timestamp
    /\ Len(cells_data) = 2
    /\ \A i \in DOMAIN cells_data :
           cells_data[i].current = 0 /\ cells_data[i].capacity = 0

---------------------------------------------------------------------------
(* C6.  Original statement: a start attempted while running or paused      *)
(* does not restart the run (index, task_start, cells and history stay as  *)
(* they were), and only a start sets the run flag.  A state is paused      *)
(* right after a pause took effect (op = "pause").                         *)
C6_Original ==
    [][/\ (/\ op' \in {"start", "start_disabled"}
           /\ (task_running \/ op = "pause"))
          => UNCHANGED <<current_task_index, task_start_time, cells_data,
                         task_history>>
       /\ (~task_running /\ task_running') => op' = "start"
      ]_vars

(* C6, amended.  A start is accepted exactly when the sequencer is not     *)
(* running, which includes paused: the code keeps no paused state, and a   *)
(* start after a pause restarts the run at task 0 with a new task_start    *)
(* and a new history entry.  While running the Start control is disabled   *)
(* and changes nothing, and only a start sets the run flag.                *)
C6_StartWhenNotRunning ==
    [][/\ (op' = "start") => ~task_running
       /\ (op' = "start_disabled") => (task_running /\ UNCHANGED session)
       /\ (~task_running /\ task_running') => op' = "start"
       /\ (op = "pause" /\ op' = "start") =>
             /\ task_running'
             /\ current_task_index' = 0
             /\ task_start_time' = now
             /\ AppendedOne("started", 1)
      ]_vars

\* A run restarted at task_1 with the second task's log entry behind it.
C6_Witness ==
    /\ op = "start"
    /\ task_running
    /\ current_task_index = 0
    /\ task_start_time = now
    /\ Len(task_history) = 2
    /\ task_history[1].task = 1
    /\ task_history[2].task = 1
    /\ task_history[2].timestamp > task_history[1].timestamp

---------------------------------------------------------------------------
(* C7.  Original statement: a pause while running clears the run flag; a   *)
(* pause in any other state fails with InvalidStateTransitionError and     *)
(* leaves the session unchanged.                                           *)
C7_Original ==
    [][/\ (op' = "pause") => (task_running /\ ~task_running')
       /\ (op' = "pause_disabled") =>
             /\ last_error' = "InvalidStateTransitionError"
             /\ UNCHANGED session
      ]_vars

(* C7, amended.  A pause while running clears the run flag and leaves      *)
(* index, task_start, the cells, the saved sequence and the history        *)
(* unchanged; in any other state the Pause control is disabled: it         *)
(* reports no error and leaves the session unchanged.                      *)
C7_PauseEffect ==
    [][/\ (op' = "pause") =>
             /\ task_running
             /\ ~task_running'
             /\ UNCHANGED <<current_task_index, task_start_time, cells_data,
                            tasks_data, task_history, setup_complete>>
       /\ (op' = "pause_disabled") =>
             /\ ~task_running
             /\ last_error' = ""
             /\ UNCHANGED session
      ]_vars

\* Paused while the second task was running: index and currents are kept.
C7_Witness ==
    /\ op = "pause"
    /\ ~task_running
    /\ current_task_index = 1
    /\ Len(task_history) = 2
    /\ \A i \in DOMAIN cells_data :
           cells_data[i].current = TargetCurrent(tasks_data[2])
    /\ \E i \in DOMAIN cells_data : cells_data[i].current # 0

---------------------------------------------------------------------------
(* C8.  start_task_sequence() with no task saved reports the error "No     *)
(* tasks defined!" and mutates nothing: run flag, index, task_start, every *)
(* cell and the history are the same after it as before.                   *)
C8_EmptyStartFails ==
    [][(op' = "start" /\ tasks_data = <<>>) =>
          /\ last_error' = "No tasks defined!"
          /\ UNCHANGED session
      ]_vars

\* The failed start, with a pool set up and the clock past 0.
C8_Witness ==
    /\ op = "start"
    /\ last_error = "No tasks defined!"
    /\ tasks_data = <<>>
    /\ Len(cells_data) = 2
    /\ task_start_time = NoTime
    /\ now > 0

---------------------------------------------------------------------------
(* C9.  In every reachable state every cell's voltage lies within          *)
(* [min_voltage, max_voltage].                                             *)
C9_VoltageInRange ==
    \A i \in DOMAIN cells_data :
        /\ cells_data[i].min_voltage <= cells_data[i].voltage
        /\ cells_data[i].voltage <= cells_data[i].max_voltage

\* One cell charged up to max_voltage and one discharged down to
\* min_voltage, each by an update of the cell.
C9_Witness ==
    /\ \E i \in DOMAIN cells_data :
          /\ cells_data[i].current > 0
          /\ cells_data[i].voltage = cells_data[i].max_voltage
          /\ cells_data[i].capacity > 0
    /\ \E i \in DOMAIN cells_data :
          /\ cells_data[i].current < 0
          /\ cells_data[i].voltage = cells_data[i].min_voltage
          /\ cells_data[i].capacity > 0

---------------------------------------------------------------------------
(* C10.  In every reachable state every cell's soc equals                  *)
(* clamp(0, 100, (voltage - min_voltage) / (max_voltage - min_voltage)     *)
(* * 100) of its current voltage, and so lies in [0, 100] (soc is kept in  *)
(* units of 1/SocScale percent).                                           *)
C10_SocFollowsVoltage ==
    \A i \in DOMAIN cells_data :
        LET cell == cells_data[i]
            ratio == ((cell.voltage - cell.min_voltage) * 100 * SocScale)
                         \div (cell.max_voltage - cell.min_voltage)
        IN  /\ cell.soc = IF ratio < 0 THEN 0
                          ELSE IF ratio > 100 * SocScale
                          THEN 100 * SocScale ELSE ratio
            /\ 0 <= cell.soc
            /\ cell.soc <= 100 * SocScale

\* A cell whose voltage an update has moved strictly inside its range.
C10_Witness ==
    \E i \in DOMAIN cells_data :
        /\ cells_data[i].current # 0
        /\ cells_data[i].capacity > 0
        /\ cells_data[i].voltage > cells_data[i].min_voltage
        /\ cells_data[i].voltage < cells_data[i].max_voltage
        /\ cells_data[i].soc > 0
        /\ cells_data[i].soc < 100 * SocScale

---------------------------------------------------------------------------
(* C11.  Original statement: in every reachable state every cell's current *)
(* has magnitude at most 10 A, whether it was set by manual control or by  *)
(* the sequencer from a task's cc_current.                                 *)
C11_Original ==
    \A i \in DOMAIN cells_data :
        /\ cells_data[i].current >= -MaxManualCurrent
        /\ cells_data[i].current <= MaxManualCurrent

---------------------------------------------------------------------------
---------------------------------------------------------------------------
(* C13.  Applying a task's effect (at a start, or at the tick that         *)
(* advances) sets every cell's current to one target, the task's           *)
(* cc_current for CC_CV and CC_CD and 0 for IDLE, and puts every cell      *)
(* through exactly one update step, so right after it all cells of the     *)
(* pool carry the same current.                                            *)
C13_TaskSetsOneCurrent ==
    [][(/\ op' \in {"start", "tick"}
        /\ Len(task_history') = Len(task_history) + 1)
       =>
          LET entry == task_history'[Len(task_history')]
              task_data == tasks_data[entry.task]
              target == IF task_data.task_type \in {"CC_CV", "CC_CD"}
                        THEN task_data.cc_current ELSE 0
          IN  /\ entry.type = task_data.task_type
              /\ DOMAIN cells_data' = DOMAIN cells_data
              /\ \A i \in DOMAIN cells_data :
                    \E temp_change \in TempChanges :
                       cells_data'[i] =
                           update_cell_calculations(
                               [cells_data[i] EXCEPT !.current = target],
                               temp_change)
              /\ \A i, j \in DOMAIN cells_data' :
                    cells_data'[i].current = cells_data'[j].current
      ]_vars

\* The tick that moved on to a CC_CD task: both cells discharge at its
\* cc_current, each after one update from different manual currents.
C13_Witness ==
    /\ op = "tick"
    /\ task_running
    /\ Len(task_history) = 2
    /\ task_history[2].type = "CC_CD"
    /\ Len(cells_data) = 2
    /\ \A i \in DOMAIN cells_data :
           /\ cells_data[i].current = tasks_data[2].cc_current
           /\ cells_data[i].capacity > 0
    /\ cells_data[1].voltage - cells_data[1].min_voltage
           # cells_data[2].voltage - cells_data[2].min_voltage

---------------------------------------------------------------------------
(* C14.  Original statement: while the sequencer is running, every tick    *)
(* applies the active task's target current to the pool, so each cell      *)
(* undergoes one update step per tick.                                     *)
C14_Original ==
    [][(/\ op' = "tick"
        /\ task_running
        /\ task_running'
        /\ TaskKey(current_task_index') \in DOMAIN tasks_data)
       => AppliedToEveryCell(
              cells_data, cells_data',
              TargetCurrent(tasks_data[TaskKey(current_task_index')]))
      ]_vars

(* C14, amended.  A task's target current is applied once, when the task   *)
(* becomes active (at the start, or at the tick that advances to it): a    *)
(* tick that leaves the sequencer running on the same task updates no cell *)
(* and does not put a manually changed current back to the task's target.  *)
C14_TickKeepsCells ==
    [][(/\ op' = "tick"
        /\ task_running
        /\ task_running'
        /\ current_task_index' = current_task_index)
       => UNCHANGED <<cells_data, task_start_time, task_history>>
      ]_vars

\* A tick during a task, after a manual change of one cell's current: the
\* cell keeps the manual value, the other cell the task's target.
C14_Witness ==
    /\ op = "tick"
    /\ task_running
    /\ Len(cells_data) = 2
    /\ TaskKey(current_task_index) \in DOMAIN tasks_data
    /\ \E i, j \in DOMAIN cells_data :
          /\ cells_data[i].current
                 = TargetCurrent(tasks_data[TaskKey(current_task_index)])
          /\ cells_data[j].current
                 # TargetCurrent(tasks_data[TaskKey(current_task_index)])
          /\ cells_data[j].current \in CellInputCurrents

---------------------------------------------------------------------------
(* C15.  Duration is the sole advance condition.  A run on a sequence and  *)
(* a run on the same sequence with other cv_voltage, cut-off voltage,      *)
(* capacity or current-limit values take the same steps: in every          *)
(* reachable state, what a start or a tick does to the run flag, index,    *)
(* cells and history is what it does when those four fields are erased     *)
(* from the sequence (the other handlers read no task field).              *)
IgnoredTaskFields == {"cv_voltage", "voltage", "capacity", "current"}

Erase(task_data) ==
    [k \in DOMAIN task_data |->
        IF k \in IgnoredTaskFields THEN 0 ELSE task_data[k]]

C15_DurationOnly ==
    [][/\ (/\ op' \in {"start", "tick"}
           /\ Len(task_history') = Len(task_history) + 1)
          =>
             LET key == task_history'[Len(task_history')].task
                 erased == Erase(tasks_data[key])
             IN  /\ task_history'[Len(task_history')]
                        = HistoryEntry(key - 1, erased)
                 /\ \E draws \in Draws(cells_data) :
                       cells_data' =
                           IF erased.task_type = "CC_CV"
                           THEN apply_cc_cv_task(erased, cells_data, draws)
                           ELSE IF erased.task_type = "IDLE"
                           THEN apply_idle_task(erased, cells_data, draws)
                           ELSE apply_cc_cd_task(erased, cells_data, draws)
       /\ (/\ op' = "tick"
           /\ task_running
           /\ TaskKey(current_task_index) \in DOMAIN tasks_data)
          =>
             ((task_running' /\ current_task_index' = current_task_index)
                  <=> CodeElapsed
                          < Erase(tasks_data[TaskKey(current_task_index)])
                                .time_seconds)
      ]_vars

\* A CC_CD task goes on discharging a cell that is below the task's
\* cut-off voltage.
C15_Witness ==
    /\ op = "tick"
    /\ task_running
    /\ TaskKey(current_task_index) \in DOMAIN tasks_data
    /\ tasks_data[TaskKey(current_task_index)].task_type = "CC_CD"
    /\ \E i \in DOMAIN cells_data :
          /\ cells_data[i].voltage
                 < tasks_data[TaskKey(current_task_index)].voltage
          /\ cells_data[i].current
                 = tasks_data[TaskKey(current_task_index)].cc_current
          /\ cells_data[i].capacity > 0

---------------------------------------------------------------------------
(* C16.  Original statement: saving a sequence while a run is in progress  *)
(* invalidates that run: after the save the sequencer is no longer         *)
(* running, so no later tick goes on with the old index and old            *)
(* task_start on the new sequence.                                         *)
C16_Original ==
    [][(op' = "save" /\ task_running) => ~task_running']_vars

---------------------------------------------------------------------------
(* C17.  Original statement: a sequence with a task whose duration is zero *)
(* or negative is refused, so no saved sequence ever holds a task with     *)
(* time_seconds <= 0.                                                      *)
C17_Original ==
    \A k \in DOMAIN tasks_data : tasks_data[k].time_seconds > 0

---------------------------------------------------------------------------
(* C18.  The history is append-only: every operation other than a full     *)
(* reset (start, tick, pause, stop, saving a sequence, manual current      *)
(* control, pool initialisation) leaves the entries already logged as a    *)
(* prefix of the log after it.                                             *)
C18_HistoryAppendOnly ==
    [][op' # "reset" =>
          /\ Len(task_history') >= Len(task_history)
          /\ SubSeq(task_history', 1, Len(task_history)) = task_history
      ]_vars

\* A full log that has lived through a tick, a stop and a second pool
\* initialisation.
C18_Witness ==
    /\ op = "setup"
    /\ Len(task_history) = 2
    /\ task_history[2].task = 2
    /\ task_history[2].timestamp > task_history[1].timestamp
    /\ ~task_running
    /\ \A i \in DOMAIN cells_data : cells_data[i].current = 0

---------------------------------------------------------------------------
(* C19.  Original statement: a step that discards or replaces the cells of *)
(* an existing pool leaves no history and no saved sequence of the earlier *)
(* pool behind.                                                            *)
C19_Original ==
    [][(op' \in {"setup", "reset"} /\ cells_data # <<>>) =>
          (task_history' = <<>> /\ tasks_data' = <<>>)
      ]_vars

(* C19, amended.  The cells of the pool are discarded or replaced only by  *)
(* "Initialize Cells" and by a full reset.  A full reset clears the pool,  *)
(* the saved sequence and the history together; "Initialize Cells" is      *)
(* available at any time and replaces the pool with new cells while the    *)
(* saved sequence, the history and the run (flag, index, task_start) stay  *)
(* as they were.                                                           *)
C19_ReinitKeepsSession ==
    [][/\ (op' = "setup") =>
             /\ cells_data' \in Pools
             /\ setup_complete'
             /\ UNCHANGED <<tasks_data, task_history, task_running,
                            current_task_index, task_start_time>>
       /\ (op' = "reset") =>
             /\ cells_data' = <<>>
             /\ tasks_data' = <<>>
             /\ task_history' = <<>>
             /\ ~task_running'
             /\ ~setup_complete'
       /\ (\/ Len(cells_data') # Len(cells_data)
           \/ \E i \in DOMAIN cells_data :
                 cells_data'[i].cell_type # cells_data[i].cell_type)
          => op' \in {"setup", "reset"}
      ]_vars

\* A new pool under a run that is still going, with its log and sequence.
C19_Witness ==
    /\ op = "setup"
    /\ task_running
    /\ tasks_data # <<>>
    /\ Len(task_history) = 1
    /\ task_history[1].type = "CC_CV"
    /\ Len(cells_data) = 2
    /\ \A i \in DOMAIN cells_data : cells_data[i].current = 0

---------------------------------------------------------------------------
(* C20.  Any number of consecutive updates of a cell with current = 0      *)
(* leaves its voltage and soc unchanged and its capacity (the instant      *)
(* power) equal to 0: a cell at rest has capacity 0 and is a fixed point   *)
(* of the update, and a step that leaves a resting cell at rest leaves its *)
(* voltage and soc as they were.                                           *)
C20_ZeroCurrentIsRest ==
    /\ [](\A i \in DOMAIN cells_data :
             cells_data[i].current = 0 =>
                /\ cells_data[i].capacity = 0
                /\ \A temp_change \in TempChanges :
                      update_cell_calculations(cells_data[i], temp_change)
                          = cells_data[i])
    /\ [][op' \notin {"setup", "reset"} =>
             \A i \in DOMAIN cells_data :
                (cells_data[i].current = 0 /\ cells_data'[i].current = 0)
                   => /\ cells_data'[i].voltage = cells_data[i].voltage
                      /\ cells_data'[i].soc = cells_data[i].soc
                      /\ cells_data'[i].capacity = 0
         ]_vars

\* An IDLE task started on cells at rest and then stopped: two updates at
\* current 0 in a row, on a cell whose voltage an earlier charge had moved.
C20_Witness ==
    /\ op = "stop"
    /\ Len(task_history) = 1
    /\ task_history[1].type = "IDLE"
    /\ \E i \in DOMAIN cells_data :
          /\ cells_data[i].current = 0
          /\ cells_data[i].capacity = 0
          /\ cells_data[i].voltage > cells_data[i].min_voltage
          /\ cells_data[i].voltage < cells_data[i].max_voltage

---------------------------------------------------------------------------
(* The cells a step has put through one update: the cell whose current a   *)
(* manual input changed, every cell at a start and at a stop.              *)
UpdatedCells ==
    IF op' = "cell"
    THEN {i \in DOMAIN cells_data : cells_data'[i] # cells_data[i]}
    ELSE IF op' \in {"start", "stop"} THEN DOMAIN cells_data
    ELSE {}

\* The voltage after one update at current c, as the claim words it.
SteppedVoltage(before, c) ==
    LET delta == IF Abs(c) * VoltagePerDeciAmp < MaxVoltageChange
                 THEN Abs(c) * VoltagePerDeciAmp ELSE MaxVoltageChange
    IN  IF c > 0
        THEN (IF before.voltage + delta > before.max_voltage
              THEN before.max_voltage ELSE before.voltage + delta)
        ELSE IF c < 0
        THEN (IF before.voltage - delta < before.min_voltage
              THEN before.min_voltage ELSE before.voltage - delta)
        ELSE before.voltage

(* C21.  Original statement: one update of a cell computes                 *)
(* instant_power = voltage * |current| from the voltage before the step    *)
(* (capacity is in 1/100 W, voltage * |current| in 1/10000 W), then moves  *)
(* the voltage by min(0.1, |current| * 0.02) up or down within the cell's  *)
(* bounds.                                                                 *)
C21_Original ==
    [][\A i \in UpdatedCells :
          /\ cells_data'[i].capacity * 100
                 = cells_data[i].voltage * Abs(cells_data'[i].current)
          /\ cells_data'[i].voltage
                 = SteppedVoltage(cells_data[i], cells_data'[i].current)
      ]_vars

(* C21, amended.  One update of a cell computes the capacity (instant      *)
(* power) as voltage * |current| from the voltage before the step, rounded *)
(* to two decimals (the nearest 1/100 W), then moves the voltage by        *)
(* min(0.1, |current| * 0.02) upward for current > 0, capped at            *)
(* max_voltage, or downward for current < 0, floored at min_voltage, and   *)
(* takes soc from the new voltage.                                         *)
C21_UpdateStep ==
    [][\A i \in UpdatedCells :
          LET product == cells_data[i].voltage * Abs(cells_data'[i].current)
              capacity == cells_data'[i].capacity
          IN  /\ 2 * Abs(capacity * 100 - product) <= 100
              /\ cells_data'[i].voltage
                     = SteppedVoltage(cells_data[i], cells_data'[i].current)
              /\ cells_data'[i].soc * (cells_data[i].max_voltage
                                           - cells_data[i].min_voltage)
                     = (cells_data'[i].voltage - cells_data[i].min_voltage)
                           * 100 * SocScale
      ]_vars

\* The example: an LFP cell at 3.20 V set to +5 A has capacity 16.00 W,
\* voltage 3.30 V and soc 62.5 %.
C21_Witness ==
    /\ op = "cell"
    /\ \E i \in DOMAIN cells_data :
          /\ cells_data[i].min_voltage = 2800
          /\ cells_data[i].max_voltage = 3600
          /\ cells_data[i].current = 50
          /\ cells_data[i].capacity = 1600
          /\ cells_data[i].voltage = 3300
          /\ 2 * cells_data[i].soc = 125 * SocScale

---------------------------------------------------------------------------
(* C22.  A cell's temperature changes only in an update performed with     *)
(* |current| > 1 A, where it moves by an amount in [-1, 2] degrees and is  *)
(* clamped to [20, 60]; an update with |current| <= 1 A leaves it          *)
(* unchanged; and the temperature of every cell is within [20, 60] in      *)
(* every reachable state.                                                  *)
C22_Temperature ==
    /\ [](\A i \in DOMAIN cells_data :
             cells_data[i].temp >= MinTemp /\ cells_data[i].temp <= MaxTemp)
    /\ [][\A i \in DOMAIN cells_data :
             /\ cells_data'[i].temp # cells_data[i].temp
                   => /\ i \in UpdatedCells
                      /\ Abs(cells_data'[i].current) > TempChangeThreshold
                      /\ \E moved \in (cells_data[i].temp - 10)
                                          .. (cells_data[i].temp + 20) :
                            cells_data'[i].temp
                                = IF moved < MinTemp THEN MinTemp
                                  ELSE IF moved > MaxTemp THEN MaxTemp
                                  ELSE moved
             /\ (/\ i \in UpdatedCells
                 /\ Abs(cells_data'[i].current) <= TempChangeThreshold)
                   => cells_data'[i].temp = cells_data[i].temp
         ]_vars

\* A cell cooled down to the lower clamp by an update at 10 A, next to a
\* cell updated at exactly 1 A whose temperature has stayed where it was.
C22_Witness ==
    /\ op = "cell"
    /\ Len(cells_data) = 2
    /\ \E i, j \in DOMAIN cells_data :
          /\ cells_data[i].temp = MinTemp
          /\ Abs(cells_data[i].current) > TempChangeThreshold
          /\ Abs(cells_data[j].current) = TempChangeThreshold
          /\ cells_data[j].capacity > 0
          /\ cells_data[j].temp = 250

---------------------------------------------------------------------------
(* C23.  For the bounds of every cell and for voltages inside, at, just    *)
(* outside and far outside those bounds, the state of charge lies in       *)
(* [0, 100] and does not decrease when the voltage increases.              *)

\* Voltages around the range [min_voltage, max_voltage], and the voltage v
\* of the cell itself.
VoltagesAround(min_voltage, max_voltage, v) ==
    {min_voltage - 1000, min_voltage - 10, min_voltage, min_voltage + 10,
     v, max_voltage - 10, max_voltage, max_voltage + 10,
     max_voltage + 1000}

C23_SocRangeAndMonotone ==
    \A i \in DOMAIN cells_data :
        LET cell == cells_data[i]
            soc(v) == calculate_soc_percentage(v, cell.min_voltage,
                                               cell.max_voltage)
            voltages == VoltagesAround(cell.min_voltage, cell.max_voltage,
                                       cell.voltage)
        IN  /\ cell.min_voltage < cell.max_voltage
            /\ \A v \in voltages : soc(v) >= 0 /\ soc(v) <= 100 * SocScale
            /\ \A v1, v2 \in voltages : v1 <= v2 => soc(v1) <= soc(v2)
            /\ cell.soc = soc(cell.voltage)

\* A cell charged up to its upper bound: soc is 100 there and stays 100 for
\* a voltage above the bound, and is 0 for a voltage below the lower bound.
C23_Witness ==
    /\ op = "cell"
    /\ \E i \in DOMAIN cells_data :
          LET cell == cells_data[i]
          IN  /\ cell.current > 0
              /\ cell.voltage = cell.max_voltage
              /\ cell.soc = 100 * SocScale
              /\ calculate_soc_percentage(cell.max_voltage + 10,
                     cell.min_voltage, cell.max_voltage) = 100 * SocScale
              /\ calculate_soc_percentage(cell.min_voltage - 10,
                     cell.min_voltage, cell.max_voltage) = 0

---------------------------------------------------------------------------
(* C24.  For the current of every cell, get_cell_status reports Charging   *)
(* exactly when current > 0.1 A, Discharging exactly when current < -0.1 A *)
(* and Idle otherwise, so that 0.1 A and -0.1 A are Idle; the task_running *)
(* flag only selects the "Task: " labels and the card class "task" and     *)
(* never changes which of the three is reported.                           *)

\* Which of Charging, Discharging and Idle a status reports.
StatusKind(status) ==
    IF status[1] \in {"Charging", "Task: Charging"} THEN "Charging"
    ELSE IF status[1] \in {"Discharging", "Task: Discharging"}
    THEN "Discharging"
    ELSE IF status[1] \in {"Idle", "Task: Idle"} THEN "Idle"
    ELSE "unknown"

\* Whether a status carries the task tag.
TaskDriven(status) ==
    /\ status[1] \in {"Task: Charging", "Task: Discharging", "Task: Idle"}
    /\ status[2] = "task"

C24_StatusThresholds ==
    \A i \in DOMAIN cells_data :
        LET current == cells_data[i].current
            manual == get_cell_status(current, FALSE)
            driven == get_cell_status(current, TRUE)
        IN  /\ (StatusKind(manual) = "Charging") <=> (current > 1)
            /\ (StatusKind(manual) = "Discharging") <=> (current < -1)
            /\ (StatusKind(manual) = "Idle") <=> (current >= -1 /\ current <= 1)
            /\ StatusKind(driven) = StatusKind(manual)
            /\ TaskDriven(driven)
            /\ ~TaskDriven(manual)
            /\ TaskDriven(get_cell_status(current, task_running))
                  <=> task_running

\* During a run, one cell at exactly 0.1 A is shown as "Task: Idle" and
\* another at 0.2 A as "Task: Charging".
C24_Witness ==
    /\ task_running
    /\ op = "cell"
    /\ \E i, j \in DOMAIN cells_data :
          /\ cells_data[i].current = 1
          /\ get_cell_status(cells_data[i].current, task_running)
                = <<"Task: Idle", "task">>
          /\ cells_data[j].current = 2
          /\ get_cell_status(cells_data[j].current, task_running)
                = <<"Task: Charging", "task">>

---------------------------------------------------------------------------
(* The command-line script cell-process.py: it reads the number of cells   *)
(* and one type per cell, and builds one cell per type.                    *)

\* Strings typed at "Enter cell type: ".
ScriptTags == {"lfp", "nmc", "LFP", "xyz"}

\* Values of round(random.uniform(25, 40), 1): both ends and the middle.
ScriptTemps == {250, 325, 400}

\* The record the loop stores under cell_key for one typed cell_type.
ScriptCell(idx, cell_type, temp) ==
    LET voltage == IF cell_type = "lfp" THEN 3200 ELSE 3600
        current == 0
    IN  [cell_key |-> <<"cell", idx, cell_type>>,
         cell_type |-> cell_type,
         voltage |-> voltage,
         current |-> current,
         temp |-> temp,
         capacity |-> RoundHalfEven(voltage * current, 100),
         min_voltage |-> IF cell_type = "lfp" THEN 2800 ELSE 3200,
         max_voltage |-> IF cell_type = "lfp" THEN 3600 ELSE 4000]

InitScript ==
    /\ setup_complete = FALSE
    /\ cells_data = <<>>
    /\ tasks_data = <<>>
    /\ task_running = FALSE
    /\ current_task_index = 0
    /\ task_start_time = NoTime
    /\ task_history = <<>>
    /\ now = 0
    /\ op = "init"
    /\ last_error = ""
    /\ n_inputs = 0

\* Lines 3-28: read the types, then build a cell for each of them.
ScriptCreateCells ==
    /\ cells_data = <<>>
    /\ \E number_of_cell \in 1..MaxCells :
          \E list_of_cell \in [1..number_of_cell -> ScriptTags],
             temps \in [1..number_of_cell -> ScriptTemps] :
             cells_data' = [idx \in 1..number_of_cell |->
                               ScriptCell(idx, list_of_cell[idx], temps[idx])]
    /\ op' = "script"
    /\ UNCHANGED <<setup_complete, tasks_data, task_running,
                   current_task_index, task_start_time, task_history, now,
                   last_error, n_inputs>>

NextScript == ScriptCreateCells

SpecScript == InitScript /\ [][NextScript]_vars

---------------------------------------------------------------------------
(* C25.  Creating a pool with a chemistry tag that is not a recognized one *)
(* creates no cell: every cell the script builds has a recognized tag, and *)
(* the chemistry table has no bounds for any other tag.                    *)

\* The tags the programs name: the options of the dashboard and the
\* spellings the two programs compare against.
RecognizedTags == {"LFP", "NMC", "LTO", "lfp", "nmc", "lto"}

C25_Original ==
    [][op' = "script" =>
          \A i \in DOMAIN cells_data' :
              cells_data'[i].cell_type \in RecognizedTags]_vars

\* A cell built for the tag "xyz", with the bounds of the else branch.
C25_DefaultCellBuilt ==
    /\ op = "script"
    /\ \E i \in DOMAIN cells_data :
          /\ cells_data[i].cell_type = "xyz"
          /\ cells_data[i].min_voltage = 3200
          /\ cells_data[i].max_voltage = 4000
          /\ get_cell_specs("xyz").min_voltage = 3000
          /\ get_cell_specs("xyz").max_voltage = 4200

---------------------------------------------------------------------------
(* C26.  Every cell built by "Initialize Cells" has the bounds of its      *)
(* chemistry (LFP 2.8/3.6/3.2 V and 100 Ah, NMC 3.2/4.0/3.6 V and 120 Ah,  *)
(* LTO 3.0/4.2/3.7 V and 110 Ah) with min_voltage < nominal_voltage <      *)
(* max_voltage, starts with current 0 and a voltage within its bounds, and *)
(* keeps its type and bounds in every later step.                          *)

\* The chemistry table as the specification states it:
\* <<min_voltage, max_voltage, nominal_voltage, nominal_capacity>>.
StatedBounds(cell_type) ==
    IF cell_type = "LFP" THEN <<2800, 3600, 3200, 100>>
    ELSE IF cell_type = "NMC" THEN <<3200, 4000, 3600, 120>>
    ELSE <<3000, 4200, 3700, 110>>

BoundsOf(cell) ==
    <<cell.min_voltage, cell.max_voltage, cell.nominal_voltage,
      cell.nominal_capacity>>

C26_CellBounds ==
    /\ [](\A i \in DOMAIN cells_data :
             /\ cells_data[i].cell_type \in CellTypes
             /\ BoundsOf(cells_data[i])
                   = StatedBounds(cells_data[i].cell_type)
             /\ cells_data[i].min_voltage < cells_data[i].nominal_voltage
             /\ cells_data[i].nominal_voltage < cells_data[i].max_voltage)
    /\ [][op' = "setup" =>
             \A i \in DOMAIN cells_data' :
                /\ cells_data'[i].current = 0
                /\ cells_data'[i].voltage >= cells_data'[i].min_voltage
                /\ cells_data'[i].voltage <= cells_data'[i].max_voltage
         ]_vars
    /\ [][op' \notin {"setup", "reset"} =>
             /\ DOMAIN cells_data' = DOMAIN cells_data
             /\ \A i \in DOMAIN cells_data :
                   /\ cells_data'[i].cell_type = cells_data[i].cell_type
                   /\ BoundsOf(cells_data'[i]) = BoundsOf(cells_data[i])
         ]_vars

\* A pool of an NMC and an LTO cell just initialised, the first at its
\* lowest and the second at its highest voltage.
C26_Witness ==
    /\ op = "setup"
    /\ Len(cells_data) = 2
    /\ cells_data[1].cell_type = "NMC"
    /\ cells_data[1].voltage = 3200
    /\ cells_data[2].cell_type = "LTO"
    /\ cells_data[2].voltage = 4200
    /\ cells_data[2].max_voltage = 4200
    /\ \A i \in DOMAIN cells_data : cells_data[i].current = 0

---------------------------------------------------------------------------
(* C27.  In every state the summary metrics are those of the cells as they *)
(* are: the total is the number of cells, the charging count the number of *)
(* cells with current > 0.1 A, the discharging count the number with       *)
(* current < -0.1 A, their sum at most the total, and the average          *)
(* temperature the mean of the cells' temperatures, lying between the      *)
(* coldest and the hottest cell; for no cells the average is 0.            *)
C27_Aggregates ==
    LET count == total_cells(cells_data)
        charging == charging_cells(cells_data)
        discharging == discharging_cells(cells_data)
        average == avg_temp(cells_data)
        shown(kind) ==
            {i \in DOMAIN cells_data :
                StatusKind(get_cell_status(cells_data[i].current, FALSE))
                    = kind}
    IN  /\ count = Cardinality(DOMAIN cells_data)
        /\ charging = Cardinality(shown("Charging"))
        /\ charging = Cardinality({i \in DOMAIN cells_data :
                                      cells_data[i].current >= 2})
        /\ discharging = Cardinality(shown("Discharging"))
        /\ discharging = Cardinality({i \in DOMAIN cells_data :
                                         cells_data[i].current <= -2})
        /\ charging + discharging <= count
        /\ count > 0 =>
              /\ average * count = SumTemp(cells_data, count) * AvgScale
              /\ \E i \in DOMAIN cells_data :
                    cells_data[i].temp * AvgScale <= average
              /\ \E i \in DOMAIN cells_data :
                    cells_data[i].temp * AvgScale >= average
        /\ count = 1 => average = cells_data[1].temp * AvgScale
        /\ count = 2 =>
              2 * average
                  = (cells_data[1].temp + cells_data[2].temp) * AvgScale
        /\ avg_temp(<<>>) = 0
        /\ total_cells(<<>>) = 0
        /\ charging_cells(<<>>) + discharging_cells(<<>>) = 0

\* Two cells after manual inputs: one charging at 0.2 A, one at exactly
\* 0.1 A and so not counted, with different temperatures.
C27_Witness ==
    /\ op = "cell"
    /\ Len(cells_data) = 2
    /\ cells_data[1].current = 2
    /\ cells_data[2].current = 1
    /\ cells_data[1].temp # cells_data[2].temp
    /\ charging_cells(cells_data) = 1
    /\ discharging_cells(cells_data) = 0
    /\ 2 * avg_temp(cells_data)
          = (cells_data[1].temp + cells_data[2].temp) * AvgScale

---------------------------------------------------------------------------
(* C28.  Apart from the temperature, a step after initialisation is a      *)
(* function of the state without its temperatures and of the operation:    *)
(* whatever the temperature of a cell and whatever the draw, the update    *)
(* gives the cell the current, voltage, soc and capacity the step gave it, *)
(* a cell not updated keeps them, and the run flag, the task index, the    *)
(* start time and the history follow from the sequence, the clock and the  *)
(* operation alone.                                                        *)

\* A cell without its temperature.
NoTemp(cell) == [cell EXCEPT !.temp = 0]

\* The cells a step has put through update_cell_calculations.
Recalculated ==
    IF op' = "cell"
    THEN {i \in DOMAIN cells_data : cells_data'[i] # cells_data[i]}
    ELSE IF op' \in {"start", "stop", "preset"} THEN DOMAIN cells_data
    ELSE IF op' = "tick" /\ task_history' # task_history
    THEN DOMAIN cells_data
    ELSE {}

\* Other histories of draws: a temperature the cell could have had, and
\* the draw of this update.
OtherDraws == {<<300, -10>>, <<MaxTemp, 20>>}

\* task_running, current_task_index and task_start_time after a step of
\* the given kind.
SequencerAfter(kind) ==
    IF kind = "start" THEN <<TRUE, 0, now>>
    ELSE IF kind = "pause" THEN <<FALSE, current_task_index, task_start_time>>
    ELSE IF kind = "stop" THEN <<FALSE, 0, task_start_time>>
    ELSE IF kind = "tick" /\ task_running /\ task_start_time # NoTime
                          /\ CodeElapsed >= TimeSecondsAt(current_task_index)
    THEN IF current_task_index + 1 >= Len(tasks_data)
         THEN <<FALSE, 0, now>>
         ELSE <<TRUE, current_task_index + 1, now>>
    ELSE <<task_running, current_task_index, task_start_time>>

C28_OnlyTemperatureIsRandom ==
    [][op' \notin {"setup", "reset"} =>
          /\ DOMAIN cells_data' = DOMAIN cells_data
          /\ \A i \in DOMAIN cells_data :
                IF i \in Recalculated
                THEN \A other \in OtherDraws :
                        NoTemp(update_cell_calculations(
                                   [cells_data[i] EXCEPT
                                       !.current = cells_data'[i].current,
                                       !.temp = other[1]],
                                   other[2]))
                            = NoTemp(cells_data'[i])
                ELSE NoTemp(cells_data'[i]) = NoTemp(cells_data[i])
          /\ <<task_running', current_task_index', task_start_time'>>
                = SequencerAfter(op')
          /\ \/ task_history' = task_history
             \/ /\ op' \in {"start", "tick"}
                /\ task_history' =
                      Append(task_history,
                             [timestamp |-> now,
                              task |-> current_task_index' + 1,
                              type |-> tasks_data[current_task_index' + 1]
                                           .task_type,
                              status |-> "started"])
      ]_vars

\* Two cells initialised alike and charged together at 5 A by a task, whose
\* temperatures the draws have since driven apart.
C28_Witness ==
    /\ Len(cells_data) = 2
    /\ task_history # <<>>
    /\ cells_data[1].current = 50
    /\ cells_data[2].current = 50
    /\ cells_data[1].temp # 250
    /\ cells_data[1].temp # 400
    /\ cells_data[1].voltage > cells_data[1].min_voltage
    /\ cells_data[1].voltage < cells_data[1].max_voltage

---------------------------------------------------------------------------
(* C29.  Original statement: whenever a run is in progress the task index  *)
(* points into the saved sequence, 0 <= current_task_index <               *)
(* Len(tasks_data), so the active task exists, whatever the interleaving   *)
(* of start, tick, pause, stop and saving a new sequence.                  *)
C29_Original ==
    task_running =>
        /\ current_task_index >= 0
        /\ current_task_index < Len(tasks_data)
        /\ TaskKey(current_task_index) \in DOMAIN tasks_data

\* A tick on a run whose active task is missing from the saved sequence:
\* it has read the default duration of 60 s and left the run as it was.
C29_TickOnMissingTask ==
    /\ op = "tick"
    /\ task_running
    /\ current_task_index >= Len(tasks_data)
    /\ TimeSecondsAt(current_task_index) = DefaultTimeSeconds
    /\ now > task_start_time

---------------------------------------------------------------------------
(* A run left to itself: cells initialised and a sequence saved, then only *)
(* the Start button, the clock and the reruns of the auto-refresh (no      *)
(* pause, stop, save or reset).  With "Auto Refresh (2s)" ticked the       *)
(* script reruns every two seconds for as long as the page is open, and    *)
(* the clock never stops: a rerun and a clock step that stay possible do   *)
(* occur.                                                                  *)

\* Saved sequences of one task: short ones, and ones of a day and more.
LiveSequences ==
    {<<CcCv(1)>>, <<CcCv(2)>>, <<Idle(SecondsPerDay)>>,
     <<Idle(SecondsPerDay + 1)>>}

InitLive ==
    /\ setup_complete = TRUE
    /\ cells_data \in Pools
    /\ tasks_data \in LiveSequences
    /\ task_running = FALSE
    /\ current_task_index = 0
    /\ task_start_time = NoTime
    /\ task_history = <<>>
    /\ now = 0
    /\ op = "init"
    /\ last_error = ""
    /\ n_inputs = 0

\* The Start button pressed at time 0, which leaves the clock of the model
\* more than the duration of every task of LiveSequences to run.
StartAtZero == now = 0 /\ StartButton

NextLive == StartAtZero \/ AdvanceClock \/ Tick

SpecLive ==
    InitLive /\ [][NextLive]_vars /\ WF_vars(Tick) /\ WF_vars(AdvanceClock)

---------------------------------------------------------------------------
(* C30.  Original statement: once a sequence is started, if the clock      *)
(* keeps advancing, reruns keep arriving and no pause, stop, save or reset *)
(* occurs, the run eventually ends, whatever the positive durations of the *)
(* tasks, durations of one day (86400 s) or more included.                 *)
C30_Original == task_running ~> ~task_running

\* A run of a task shorter than a day does end.
C30_ShortRunEnds ==
    (task_running /\ TimeSecondsAt(current_task_index) < SecondsPerDay)
        ~> ~task_running

\* As coded, the active task of a run is never due while its duration is
\* one day or more: the elapsed seconds the code computes stay below 86400.
C30_DayLongTaskNeverDue ==
    (task_running /\ task_start_time # NoTime
        /\ TimeSecondsAt(current_task_index) >= SecondsPerDay)
       => (CodeElapsed < SecondsPerDay /\ ~TaskDue)

\* A rerun more than a day after the start of a one-day task that finds the
\* run still on that task.
C30_StillRunningAfterADay ==
    /\ op = "tick"
    /\ task_running
    /\ TimeSecondsAt(current_task_index) = SecondsPerDay
    /\ now - task_start_time > SecondsPerDay

---------------------------------------------------------------------------
(* C31.  Tasks run in the order of the sequence and none is passed over.   *)
(* A tick moves the index by at most one, however much time has elapsed,   *)
(* applies the task it moves to and logs it, and ends the run only from    *)
(* the last task; the log therefore lists, after each start, the tasks     *)
(* task_1, task_2, ... one by one, the active task of a run is the one     *)
(* logged last, and a run that a tick ends on the last task has logged     *)
(* every task of the sequence once, in order.                              *)
C31_InOrderNoneSkipped ==
    /\ [](\A k \in 1..(Len(task_history) - 1) :
             task_history[k + 1].task \in {1, task_history[k].task + 1})
    /\ [](task_running =>
             /\ task_history # <<>>
             /\ LastEntry.task = TaskKey(current_task_index))
    /\ [][op' = "tick" =>
             /\ Len(task_history') <= Len(task_history) + 1
             /\ task_running' =>
                   /\ task_running
                   /\ current_task_index'
                         \in {current_task_index, current_task_index + 1}
             /\ (task_running' /\ current_task_index' # current_task_index)
                   => /\ AppendedOne("started", TaskKey(current_task_index'))
                      /\ AppliedToEveryCell(
                             cells_data, cells_data',
                             TargetCurrent(
                                 tasks_data[TaskKey(current_task_index')]))
             /\ (task_running /\ ~task_running')
                   => /\ current_task_index + 1 >= Len(tasks_data)
                      /\ task_history' = task_history
             /\ (task_running /\ ~task_running' /\ OnLastTask)
                   => /\ Len(task_history) >= Len(tasks_data)
                      /\ \A k \in 1..Len(tasks_data) :
                            task_history[Len(task_history)
                                             - Len(tasks_data) + k].task = k
         ]_vars

\* A first tick that comes when the durations of both tasks of the
\* sequence have elapsed: it has moved to the second task only.
C31_Witness ==
    /\ op = "tick"
    /\ task_running
    /\ current_task_index = 1
    /\ Len(tasks_data) = 2
    /\ Len(task_history) = 2
    /\ task_history[1].task = 1
    /\ task_history[2].task = 2
    /\ task_history[2].timestamp - task_history[1].timestamp
          >= tasks_data[1].time_seconds + tasks_data[2].time_seconds
    /\ task_history[2].timestamp - task_history[1].timestamp < SecondsPerDay

---------------------------------------------------------------------------
(* C32.  A pause changes the run flag and nothing else: the task index,    *)
(* every cell's current, voltage, soc, temperature and capacity, the       *)
(* history, the saved sequence and task_start are after it what they were  *)
(* before, so the cells go on carrying the current they had; and while no  *)
(* run is in progress the reruns and the clock leave the cells, the index  *)
(* and the history alone.                                                  *)
C32_PauseFrame ==
    /\ [][op' = "pause" =>
             /\ task_running' # task_running
             /\ current_task_index' = current_task_index
             /\ DOMAIN cells_data' = DOMAIN cells_data
             /\ \A i \in DOMAIN cells_data :
                   /\ cells_data'[i].current = cells_data[i].current
                   /\ cells_data'[i].voltage = cells_data[i].voltage
                   /\ cells_data'[i].soc = cells_data[i].soc
                   /\ cells_data'[i].temp = cells_data[i].temp
                   /\ cells_data'[i].capacity = cells_data[i].capacity
             /\ task_history' = task_history
             /\ tasks_data' = tasks_data
             /\ task_start_time' = task_start_time
             /\ now' = now
         ]_vars
    /\ [][(~task_running /\ op' \in {"tick", "clock", "pause_disabled"}) =>
             /\ cells_data' = cells_data
             /\ current_task_index' = current_task_index
             /\ task_history' = task_history
             /\ ~task_running'
         ]_vars

\* Paused during the first task, after a manual change of one cell: that
\* cell carries the manual current, the other the current of the task.
C32_Witness ==
    /\ op = "pause"
    /\ ~task_running
    /\ current_task_index = 0
    /\ Len(task_history) = 1
    /\ Len(cells_data) = 2
    /\ \E i, j \in DOMAIN cells_data :
          /\ cells_data[i].current = TargetCurrent(tasks_data[1])
          /\ cells_data[i].current # 0
          /\ cells_data[j].current \in CellInputCurrents
          /\ cells_data[j].current # cells_data[i].current

---------------------------------------------------------------------------
(* C33.  Original statement: while a run is in progress and no manual      *)
(* current action (preset or per-cell input) has happened since the active *)
(* task was applied, every cell's current is the target current of the     *)
(* active task.  Step by step: a step that applies a task leaves every     *)
(* cell at the target of the task then active, and a step other than a     *)
(* manual current action that finds a run with every cell at the active    *)
(* task's target and leaves the run in progress leaves every cell at the   *)
(* target of the task active after it.                                     *)

\* The active task exists and every cell carries its target current.
AtTarget(cells, tasks, index) ==
    /\ TaskKey(index) \in DOMAIN tasks
    /\ \A i \in DOMAIN cells :
          cells[i].current = TargetCurrent(tasks[TaskKey(index)])

C33_Original ==
    [][(task_running' /\ op' \notin {"preset", "cell"}) =>
          /\ (op' = "start" \/ task_history' # task_history)
                => AtTarget(cells_data', tasks_data', current_task_index')
          /\ (task_running
                 /\ AtTarget(cells_data, tasks_data, current_task_index))
                => AtTarget(cells_data', tasks_data', current_task_index')
      ]_vars

\* A sequence saved during a run whose cells carried the active task's
\* current: the run goes on, and the cells still carry the current of the
\* task that was replaced, not that of the task now active.
C33_SaveLeavesOldCurrent ==
    /\ op = "save"
    /\ task_running
    /\ TaskKey(current_task_index) \in DOMAIN tasks_data
    /\ Len(task_history) = 1
    /\ task_history[1].type = "CC_CV"
    /\ tasks_data[TaskKey(current_task_index)].task_type = "CC_CD"
    /\ cells_data # <<>>
    /\ \A i \in DOMAIN cells_data :
          /\ cells_data[i].current = 50
          /\ cells_data[i].current
                # TargetCurrent(tasks_data[TaskKey(current_task_index)])

=============================================================================
